---- MODULE Spec2Model ----
(***************************************************************************)
(* Conversion engine (lib/conversion/engine): the memoized engine          *)
(* bootstrap, the capability cache and catalog merge, format detection,    *)
(* handler lookup, and the fallback-driven executor convertFiles.          *)
(*                                                                         *)
(* Strings whose characters matter (format names, extensions, file names) *)
(* are sequences of one-character strings; a Map is a sequence of          *)
(* <<key, value>> pairs in insertion order; an optional value is <<>>      *)
(* (absent) or <<v>>.                                                      *)
(***************************************************************************)
EXTENDS Integers, Sequences, FiniteSets, TLC

VARIABLES
  engineInstance,  \* module-level `engineInstance`: None or Some(engine)
  initPromise,     \* module-level `initPromise`: "null", "pending", "fulfilled", "rejected"
  constructions,   \* number of times initializeEngine has been started
  build,           \* the locals and the position of the initializeEngine task
  hReady,          \* handler.ready, per registered handler
  hFormats,        \* handler.supportedFormats, per registered handler (optional)
  hInitCalls,      \* invocations of handler.init, per handler and per invoker
  getter,          \* the getEngine callers
  call,            \* the convertFiles calls
  deadEnds,        \* engine.graph's dead-end memory
  pure,            \* input and result of the pure function under test
  page             \* ConvertPage's React state

vars == <<engineInstance, initPromise, constructions, build, hReady,
          hFormats, hInitCalls, getter, call, deadEnds, pure, page>>

(***************************************************************************)
(* Bounds                                                                  *)
(***************************************************************************)
MaxCallers == 2
MaxHops == 3
MaxRaw == 2
MaxCatalog == 2
MaxFindHandlers == 2
MaxFindFormats == 1

(***************************************************************************)
(* Optional values, strings, Maps                                          *)
(***************************************************************************)
None == <<>>
Some(v) == <<v>>
IsSome(o) == Len(o) = 1
Get(o) == o[1]

Range(s) == {s[i] : i \in 1..Len(s)}

RECURSIVE Flatten(_)
Flatten(ss) == IF ss = <<>> THEN <<>> ELSE Head(ss) \o Flatten(Tail(ss))

\* String.prototype.toLowerCase over the alphabet in use
LowerChar(ch) == CASE ch = "P" -> "p" [] ch = "Q" -> "q" [] OTHER -> ch
toLowerCase(s) == [i \in 1..Len(s) |-> LowerChar(s[i])]

\* Map.prototype.has / get / set on an insertion-ordered Map
MapHas(m, k) == \E i \in 1..Len(m) : m[i][1] = k
MapIndex(m, k) == CHOOSE i \in 1..Len(m) : m[i][1] = k
MapGet(m, k) == m[MapIndex(m, k)][2]
MapSet(m, k, v) ==
  IF MapHas(m, k) THEN [m EXCEPT ![MapIndex(m, k)] = <<k, v>>]
  ELSE Append(m, <<k, v>>)
MapValues(m) == [i \in 1..Len(m) |-> m[i][2]]

\* new Map(entries): later entries with an equal key replace earlier ones
RECURSIVE MapFrom(_, _)
MapFrom(entries, acc) ==
  IF entries = <<>> THEN acc
  ELSE MapFrom(Tail(entries), MapSet(acc, Head(entries)[1], Head(entries)[2]))

(***************************************************************************)
(* Formats                                                                 *)
(***************************************************************************)
FileFormat(format, internal, extension, mime, from, to, lossless) ==
  [format |-> format, internal |-> internal, extension |-> extension,
   mime |-> mime, from |-> from, to |-> to, lossless |-> lossless]

SVG == <<"s">>
PNG == <<"p">>
MID == <<"m">>
GIF == <<"g">>

SvgIn  == FileFormat(SVG, SVG, SVG, "image/svg+xml", TRUE, FALSE, TRUE)
PngOut == FileFormat(PNG, PNG, PNG, "image/png", FALSE, TRUE, TRUE)
PngIn  == FileFormat(PNG, PNG, PNG, "image/png", TRUE, FALSE, FALSE)
MidAny == FileFormat(MID, MID, MID, "image/x-mid", TRUE, TRUE, FALSE)
GifAny == FileFormat(GIF, GIF, GIF, "image/gif", TRUE, TRUE, FALSE)

(***************************************************************************)
(* The handler registry (handlers/index) and what each handler's init      *)
(* publishes when it succeeds                                              *)
(***************************************************************************)
handlers == <<"H1", "H2">>
HandlerNames == Range(handlers)

LiveFormats(h) ==
  CASE h = "H1" -> <<SvgIn, PngOut>>
    [] h = "H2" -> <<SvgIn, MidAny, PngOut>>
    [] OTHER -> <<>>

\* a snapshot entry whose value is JSON null, kept apart from every list of Formats
Null == <<[null |-> TRUE]>>
\* `...formats` can be spread
iterable(formats) == ~(Len(formats) = 1 /\ "null" \in DOMAIN formats[1])

\* What GET /cache.json can do: fetch rejects, the response is not ok, json() rejects,
\* the forEach throws on an entry, or a snapshot is read
NoResponse == [status |-> "none", entries |-> <<>>]
Snapshots ==
  { [status |-> "neterror", entries |-> <<>>],
    [status |-> "notok",    entries |-> <<>>],
    [status |-> "badjson",  entries |-> <<>>],
    [status |-> "ok", entries |-> << <<"HX", Null>>, <<"H1", <<PngIn, SvgIn, PngOut>> >> >>],
    [status |-> "ok", entries |-> << <<"H2", <<SvgIn, PngOut>> >> >>],
    [status |-> "ok", entries |-> << <<"HX", <<GifAny>> >>, <<"H1", <<PngIn, SvgIn, PngOut>> >> >>] }

(***************************************************************************)
(* Catalog merge: initializeEngine, "Deduplicate formats"                  *)
(***************************************************************************)
\* `${f.format}::${f.internal}`
formatKey(f) == f.format \o <<":", ":">> \o f.internal

\* one iteration of `for (const f of rawFormats)`
mergeFormat(formatMap, f) ==
  IF MapHas(formatMap, formatKey(f))
  THEN LET existing == MapGet(formatMap, formatKey(f)) IN
       MapSet(formatMap, formatKey(f),
              [existing EXCEPT !.from = existing.from \/ f.from,
                               !.to = existing.to \/ f.to,
                               !.lossless = IF f.lossless THEN TRUE ELSE existing.lossless])
  ELSE MapSet(formatMap, formatKey(f), f)

RECURSIVE mergeAll(_, _)
mergeAll(rawFormats, formatMap) ==
  IF rawFormats = <<>> THEN formatMap
  ELSE mergeAll(Tail(rawFormats), mergeFormat(formatMap, Head(rawFormats)))

\* Array.from(formatMap.values())
dedupFormats(rawFormats) == MapValues(mergeAll(rawFormats, <<>>))

(***************************************************************************)
(* getEngine and initializeEngine                                          *)
(***************************************************************************)
Callers == 1..MaxCallers

EngineReady == IsSome(engineInstance) /\ Get(engineInstance).ready

\* getEngine falls through to `initPromise = initializeEngine()`
getEngineStarts_ignoresInFlight == ~EngineReady
getEngineStarts_retriesRejected == ~EngineReady /\ initPromise.state \in {"null", "rejected"}
getEngineStarts == ~EngineReady /\ initPromise.state = "null"

BuildIdle ==
  [pc |-> "none", i |-> 1, supportedFormatCache |-> <<>>, rawFormats |-> <<>>,
   rawBy |-> <<>>, cacheMap |-> <<>>, initRejected |-> {}, response |-> NoResponse]

\* getEngine, up to its return
getEngine(g) ==
  /\ getter[g].pc = "idle"
  /\ IF EngineReady
     THEN /\ getter' = [getter EXCEPT ![g] =
                  [pc |-> "resolved", via |-> "ready", result |-> Get(engineInstance).id]]
          /\ UNCHANGED <<initPromise, constructions, build>>
     ELSE IF getEngineStarts
     THEN /\ initPromise' = [state |-> "pending", value |-> 0]
          /\ constructions' = constructions + 1
          /\ build' = [BuildIdle EXCEPT !.pc = "import"]
          /\ getter' = [getter EXCEPT ![g].pc = "waiting", ![g].via = "started"]
     ELSE /\ getter' = [getter EXCEPT ![g].pc = "waiting",
                 ![g].via = IF initPromise.state = "pending" THEN "joined" ELSE "settled"]
          /\ UNCHANGED <<initPromise, constructions, build>>
  /\ UNCHANGED <<engineInstance, hReady, hFormats, hInitCalls, call, deadEnds, pure, page>>

\* the caller's await on the promise getEngine returned
getEngineSettles(g) ==
  /\ getter[g].pc = "waiting"
  /\ initPromise.state \in {"fulfilled", "rejected"}
  /\ getter' = [getter EXCEPT ![g] =
        IF initPromise.state = "fulfilled"
        THEN [getter[g] EXCEPT !.pc = "resolved", !.result = initPromise.value]
        ELSE [getter[g] EXCEPT !.pc = "rejected", !.result = initPromise.value]]
  /\ UNCHANGED <<engineInstance, initPromise, constructions, build,
                 hReady, hFormats, hInitCalls, call, deadEnds, pure, page>>

\* `await import("./handlers/index")`
importHandlers ==
  /\ build.pc = "import"
  /\ \/ /\ build' = [build EXCEPT !.pc = "fetch"]
        /\ UNCHANGED initPromise
     \/ /\ build' = [build EXCEPT !.pc = "failed"]
        /\ initPromise' = [state |-> "rejected", value |-> constructions]
  /\ UNCHANGED <<engineInstance, constructions, hReady, hFormats,
                 hInitCalls, getter, call, deadEnds, pure, page>>

\* the catch block of the snapshot load: a warning, then on to the handler loop
snapshotFailure_uncaught(b) == [b EXCEPT !.pc = "failed", !.response = NoResponse]
snapshotFailure(b) == [b EXCEPT !.pc = "loop", !.response = NoResponse]

\* `await fetch("/cache.json")` and the test of cacheResponse.ok
fetchCache ==
  /\ build.pc = "fetch"
  /\ \E snapshot \in Snapshots :
       build' = IF snapshot.status = "neterror" THEN snapshotFailure(build)
                ELSE IF snapshot.status = "notok" THEN [build EXCEPT !.pc = "loop"]
                ELSE [build EXCEPT !.pc = "json", !.response = snapshot]
  /\ UNCHANGED <<engineInstance, initPromise, constructions, hReady,
                 hFormats, hInitCalls, getter, call, deadEnds, pure, page>>

\* the forEach callback throws on some entry
loadThrows(cacheMap) == \E k \in 1..Len(cacheMap) : ~iterable(cacheMap[k][2])

\* cacheMap.forEach: supportedFormatCache.set, rawFormats.push(...formats); an entry
\* that cannot be spread is set, then ends the forEach
RECURSIVE loadEntries(_, _)
loadEntries(cacheMap, b) ==
  IF cacheMap = <<>> THEN b
  ELSE IF ~iterable(Head(cacheMap)[2])
  THEN [b EXCEPT !.supportedFormatCache = MapSet(@, Head(cacheMap)[1], Head(cacheMap)[2])]
  ELSE loadEntries(Tail(cacheMap),
         [b EXCEPT !.supportedFormatCache = MapSet(@, Head(cacheMap)[1], Head(cacheMap)[2]),
                   !.rawFormats = @ \o Head(cacheMap)[2],
                   !.rawBy = @ \o [k \in 1..Len(Head(cacheMap)[2]) |-> Head(cacheMap)[1]]])

\* `await cacheResponse.json()`, new Map(cacheJSON) and the forEach; cacheMap keeps
\* the entries the forEach has set
loadCache ==
  /\ build.pc = "json"
  /\ build' = IF build.response.status = "ok"
              THEN LET cacheMap == MapFrom(build.response.entries, <<>>)
                       loaded == loadEntries(cacheMap, build)
                       kept == [loaded EXCEPT !.cacheMap = loaded.supportedFormatCache]
                   IN IF loadThrows(cacheMap) THEN snapshotFailure(kept)
                      ELSE [kept EXCEPT !.pc = "loop", !.response = NoResponse]
              ELSE snapshotFailure(build)
  /\ UNCHANGED <<engineInstance, initPromise, constructions, hReady,
                 hFormats, hInitCalls, getter, call, deadEnds, pure, page>>

\* what a run of handler.init() leaves behind (handler code, external)
InitOutcomes == {"ok", "bare", "reject"}
initReady(h, outcome) == IF outcome = "reject" THEN hReady[h] ELSE TRUE
initFormats(h, outcome) == IF outcome = "ok" THEN Some(LiveFormats(h)) ELSE hFormats[h]

\* the handler loop takes the cached branch for handlers[i]
adoptsCached_never(b) == FALSE
adoptsCached(b) == MapHas(b.supportedFormatCache, handlers[b.i])

\* one iteration of the handler loop, up to `continue` or `await handler.init()`
initLoop ==
  /\ build.pc = "loop"
  /\ build.i <= Len(handlers)
  /\ LET handler == handlers[build.i] IN
     IF adoptsCached(build)
     THEN /\ hFormats' = [hFormats EXCEPT ![handler] =
                            Some(MapGet(build.supportedFormatCache, handler))]
          /\ build' = [build EXCEPT !.i = @ + 1]
          /\ UNCHANGED hInitCalls
     ELSE /\ hInitCalls' = [hInitCalls EXCEPT ![handler].build = @ + 1]
          /\ build' = [build EXCEPT !.pc = "init"]
          /\ UNCHANGED hFormats
  /\ UNCHANGED <<engineInstance, initPromise, constructions, hReady,
                 getter, call, deadEnds, pure, page>>

\* the try block after `await handler.init()` settles, or its catch
recordInit_uncaught(b, handler, outcome, formats) ==
  IF outcome = "reject"
  THEN [b EXCEPT !.pc = "failed", !.initRejected = @ \cup {handler}]
  ELSE IF ~IsSome(formats) THEN [b EXCEPT !.i = @ + 1, !.pc = "loop"]
  ELSE [b EXCEPT !.i = @ + 1, !.pc = "loop",
                 !.supportedFormatCache = MapSet(@, handler, Get(formats)),
                 !.rawFormats = @ \o Get(formats),
                 !.rawBy = @ \o [k \in 1..Len(Get(formats)) |-> handler]]
recordInit(b, handler, outcome, formats) ==
  IF outcome = "reject"
  THEN [b EXCEPT !.i = @ + 1, !.pc = "loop", !.initRejected = @ \cup {handler}]
  ELSE IF IsSome(formats)
  THEN [b EXCEPT !.i = @ + 1, !.pc = "loop",
                 !.supportedFormatCache = MapSet(@, handler, Get(formats)),
                 !.rawFormats = @ \o Get(formats),
                 !.rawBy = @ \o [k \in 1..Len(Get(formats)) |-> handler]]
  ELSE [b EXCEPT !.i = @ + 1, !.pc = "loop"]

initSettles ==
  /\ build.pc = "init"
  /\ \E outcome \in InitOutcomes :
       LET handler == handlers[build.i] IN
       /\ hReady' = [hReady EXCEPT ![handler] = initReady(handler, outcome)]
       /\ hFormats' = [hFormats EXCEPT ![handler] = initFormats(handler, outcome)]
       /\ build' = recordInit(build, handler, outcome, initFormats(handler, outcome))
  /\ UNCHANGED <<engineInstance, initPromise, constructions,
                 hInitCalls, getter, call, deadEnds, pure, page>>

\* after the loop: dedup, graph.init, `engineInstance = {...}`, return
publishEngine ==
  /\ build.pc = "loop"
  /\ build.i > Len(handlers)
  /\ engineInstance' = Some([id |-> constructions,
                             handlers |-> handlers,
                             allFormats |-> dedupFormats(build.rawFormats),
                             supportedFormatCache |-> build.supportedFormatCache,
                             ready |-> TRUE])
  /\ initPromise' = [state |-> "fulfilled", value |-> constructions]
  /\ build' = [build EXCEPT !.pc = "done"]
  /\ UNCHANGED <<constructions, hReady, hFormats, hInitCalls, getter,
                 call, deadEnds, pure, page>>

(***************************************************************************)
(* findHandlerForFormat                                                    *)
(***************************************************************************)
\* h.supportedFormats?.some(f => f.internal === format.internal && f.format === format.format)
supportsFormat_byInternalOnly(h, format) ==
  /\ IsSome(h.supportedFormats)
  /\ \E k \in 1..Len(Get(h.supportedFormats)) :
       Get(h.supportedFormats)[k].internal = format.internal
supportsFormat(h, format) ==
  /\ IsSome(h.supportedFormats)
  /\ \E k \in 1..Len(Get(h.supportedFormats)) :
       /\ Get(h.supportedFormats)[k].internal = format.internal
       /\ Get(h.supportedFormats)[k].format = format.format

\* handlers.find(...) ?? null: the index of the handler found, 0 for null
findHandlerForFormat(format, hs) ==
  IF \E i \in 1..Len(hs) : supportsFormat(hs[i], format)
  THEN CHOOSE i \in 1..Len(hs) :
         /\ supportsFormat(hs[i], format)
         /\ \A j \in 1..(i - 1) : ~supportsFormat(hs[j], format)
  ELSE 0

\* engine.handlers as objects, with their current supportedFormats
handlerObjects ==
  [i \in 1..Len(handlers) |->
     [name |-> handlers[i], supportedFormats |-> hFormats[handlers[i]]]]

(***************************************************************************)
(* detectInputFormat                                                       *)
(***************************************************************************)
\* normalizeMimeType (./normalizeMimeType): aliases map to their canonical type
normalizeMimeType(type) ==
  CASE type = "image/x-png" -> "image/png" [] OTHER -> type

\* file.name.split(".").pop()?.toLowerCase() || ""
lastDot(name) ==
  IF \E k \in 1..Len(name) : name[k] = "."
  THEN CHOOSE k \in 1..Len(name) :
         name[k] = "." /\ \A j \in (k + 1)..Len(name) : name[j] # "."
  ELSE 0
fileExtension(name) == toLowerCase(SubSeq(name, lastDot(name) + 1, Len(name)))

\* the three predicates handed to allFormats.find
matchExtensionAndMime_anyMime(f, extension, mime) ==
  f.from /\ toLowerCase(f.extension) = extension
matchExtensionAndMime(f, extension, mime) ==
  f.from /\ toLowerCase(f.extension) = extension /\ (f.mime = mime \/ mime = "")
matchExtension(f, extension) ==
  f.from /\ toLowerCase(f.extension) = extension
matchMime(f, mime) == f.from /\ f.mime = mime

\* Array.prototype.find as an index: the first k whose test is true, 0 if none
findFirst(tests) ==
  IF \E k \in 1..Len(tests) : tests[k]
  THEN CHOOSE k \in 1..Len(tests) : tests[k] /\ \A j \in 1..(k - 1) : ~tests[j]
  ELSE 0

\* the index in allFormats of the entry returned, 0 for null
detectInputFormat(file, allFormats) ==
  LET extension == fileExtension(file.name)
      mime == normalizeMimeType(file.type)
      all == 1..Len(allFormats)
      m1 == findFirst([k \in all |-> matchExtensionAndMime(allFormats[k], extension, mime)])
      m2 == IF m1 = 0
            THEN findFirst([k \in all |-> matchExtension(allFormats[k], extension)])
            ELSE m1
  IN  IF m2 = 0 /\ mime # ""
      THEN findFirst([k \in all |-> matchMime(allFormats[k], mime)])
      ELSE m2

(***************************************************************************)
(* TraversionGraph: vertices, edges, path search, dead-end memory          *)
(***************************************************************************)
ConvertPathNode(handler, format) == [handler |-> handler, format |-> format]

nodeId(n) == <<n.handler, n.format.format, n.format.internal>>
pathSignature(path) == [k \in 1..Len(path) |-> nodeId(path[k])]

handlerVertices(cache, h) ==
  IF MapHas(cache, h)
  THEN [k \in 1..Len(MapGet(cache, h)) |-> ConvertPathNode(h, MapGet(cache, h)[k])]
  ELSE <<>>

\* graph.init(supportedFormatCache, handlers): vertices in registration order
graphVertices(cache) ==
  Flatten([i \in 1..Len(handlers) |-> handlerVertices(cache, handlers[i])])

hasVertex(V, n) == \E k \in 1..Len(V) : nodeId(V[k]) = nodeId(n)
vertexIndex(V, n) == CHOOSE k \in 1..Len(V) : nodeId(V[k]) = nodeId(n)

\* the graph's vertices plus the two request anchors
searchVertices(cache, from, to) ==
  LET V0 == graphVertices(cache)
      V1 == IF hasVertex(V0, from) THEN V0 ELSE Append(V0, from)
  IN  IF hasVertex(V1, to) THEN V1 ELSE Append(V1, to)

sameFormat(f, g) == f.format = g.format /\ f.internal = g.internal

\* intra-handler edge or hand-off edge
hasEdge_intraOnly(u, v) ==
  /\ nodeId(u) # nodeId(v)
  /\ u.handler = v.handler /\ u.format.from /\ v.format.to
hasEdge(u, v) ==
  /\ nodeId(u) # nodeId(v)
  /\ \/ u.handler = v.handler /\ u.format.from /\ v.format.to
     \/ u.handler # v.handler /\ sameFormat(u.format, v.format)

\* the simple paths of exactly n hops that start at vertex iFrom, as index sequences
RECURSIVE walks(_, _, _, _)
walks(V, iFrom, iTo, n) ==
  IF n = 0 THEN {<<iFrom>>}
  ELSE UNION { {Append(p, j) : j \in {k \in 1..Len(V) :
                    k \notin Range(p) /\ hasEdge(V[p[Len(p)]], V[k])}} :
               p \in {q \in walks(V, iFrom, iTo, n - 1) : q[Len(q)] # iTo} }

lexLess(p, q) ==
  \E k \in 1..Len(p) : p[k] < q[k] /\ \A j \in 1..(k - 1) : p[j] = q[j]

RECURSIVE sortWalks(_)
sortWalks(S) ==
  IF S = {} THEN <<>>
  ELSE LET m == CHOOSE p \in S : \A q \in S \ {p} : lexLess(p, q)
       IN <<m>> \o sortWalks(S \ {m})

arrivals(V, iFrom, iTo, n) ==
  sortWalks({p \in walks(V, iFrom, iTo, n) : p[Len(p)] = iTo})

\* candidates by hop count, registration order within a hop count
RECURSIVE orderedWalks(_, _, _, _, _)
orderedWalks_deepestFirst(V, iFrom, iTo, simpleMode, n) ==
  Flatten([d \in 1..(MaxHops + 1) |-> arrivals(V, iFrom, iTo, MaxHops + 1 - d)])
orderedWalks_everyDepth(V, iFrom, iTo, simpleMode, n) ==
  Flatten([d \in 1..(MaxHops + 1) |-> arrivals(V, iFrom, iTo, d - 1)])
orderedWalks(V, iFrom, iTo, simpleMode, n) ==
  IF n > MaxHops THEN <<>>
  ELSE LET here == arrivals(V, iFrom, iTo, n) IN
       IF simpleMode /\ here # <<>> THEN here
       ELSE here \o orderedWalks(V, iFrom, iTo, simpleMode, n + 1)

\* the whole sequence searchPath(from, to, simpleMode) would yield with no dead ends
searchPath(cache, from, to, simpleMode) ==
  LET V == searchVertices(cache, from, to)
      W == orderedWalks(V, vertexIndex(V, from), vertexIndex(V, to), simpleMode, 0)
  IN  [k \in 1..Len(W) |-> [j \in 1..Len(W[k]) |-> V[W[k][j]]]]

\* the position of the next path the iterator yields, 0 when it is finished
nextYield_fromStart(paths, cursor, dead) ==
  IF \E k \in 1..Len(paths) : pathSignature(paths[k]) \notin dead
  THEN CHOOSE k \in 1..Len(paths) :
         /\ pathSignature(paths[k]) \notin dead
         /\ \A j \in 1..(k - 1) : pathSignature(paths[j]) \in dead
  ELSE 0
nextYield(paths, cursor, dead) ==
  IF \E k \in (cursor + 1)..Len(paths) : pathSignature(paths[k]) \notin dead
  THEN CHOOSE k \in (cursor + 1)..Len(paths) :
         /\ pathSignature(paths[k]) \notin dead
         /\ \A j \in (cursor + 1)..(k - 1) : pathSignature(paths[j]) \in dead
  ELSE 0

clearDeadEndPaths(dead) == {}
addDeadEndPath(dead, path) == dead \cup {pathSignature(path)}

(***************************************************************************)
(* convertFiles                                                            *)
(***************************************************************************)
nameChars(h) ==
  CASE h = "H1" -> <<"H", "1">> [] h = "H2" -> <<"H", "2">> [] OTHER -> <<"H", "X">>

\* path.map(n => `${n.handler.name}:${n.format.internal}`).join("->")
RECURSIVE joinKeys(_)
joinKeys(parts) ==
  IF parts = <<>> THEN <<>>
  ELSE IF Len(parts) = 1 THEN parts[1]
  ELSE parts[1] \o <<"-", ">">> \o joinKeys(Tail(parts))
pathKey(path) ==
  joinKeys([k \in 1..Len(path) |->
              nameChars(path[k].handler) \o <<":">> \o path[k].format.internal])

\* a FileData is modelled by bytes.length
InputFileSets == {<<1>>, <<0>>}
ConvertResults == {<<1>>, <<1, 0>>, <<>>}

\* `recorded` keeps the signatures of the paths the call has handed to addDeadEndPath,
\* `args` the arguments of the doConvert call in flight, `lastOutput` what the last
\* hop of the current attempt has resolved with
CallIdle ==
  [pc |-> "idle", inputFormat |-> SvgIn, outputFormat |-> SvgIn, simpleMode |-> TRUE,
   inputFiles |-> <<>>, fileDataArray |-> <<>>, paths |-> <<>>, cursor |-> 0,
   failedPaths |-> {}, path |-> <<>>, i |-> 0, currentFiles |-> <<>>,
   result |-> None, error |-> None, event |-> "none", requested |-> 0, invoked |-> 0,
   recorded |-> {}, fromHandler |-> 0, toHandler |-> 0,
   args |-> None, lastOutput |-> None]

\* fromHandler || engine.handlers[0]
anchorHandler(found) == IF found # 0 THEN handlers[found] ELSE handlers[1]

\* currentFiles.some(f => !f.bytes.length)
someEmpty(files) == \E k \in 1..Len(files) : files[k] = 0

\* the call: convertFiles(inputFiles, inputFormat, outputFormat, engine, simpleMode),
\* with the engine the caller got from getEngine. One conversion per run: the callers
\* are interchangeable, so it is the first caller that issues it.
convertFiles(c) ==
  /\ call[c].pc = "idle"
  /\ getter[c].pc = "resolved"
  /\ \A d \in Callers : c <= d
  /\ \E inF \in {f \in Range(Get(engineInstance).allFormats) : f.from},
        outF \in {f \in Range(Get(engineInstance).allFormats) : f.to},
        mode \in BOOLEAN, files \in InputFileSets :
       call' = [call EXCEPT ![c] = [CallIdle EXCEPT !.pc = "read", !.inputFormat = inF,
                  !.outputFormat = outF, !.simpleMode = mode, !.inputFiles = files]]
  /\ UNCHANGED <<engineInstance, initPromise, constructions, build,
                 hReady, hFormats, hInitCalls, getter, deadEnds, pure, page>>

\* the head of the hop loop for hop r.i of r.path: `if (!handler.ready) await handler.init()`
\* or straight to `await handler.doConvert(...)`; past the last hop, the test of
\* currentFiles.length
hopNeedsInit(r) == r.i < Len(r.path) - 1 /\ ~hReady[r.path[r.i + 2].handler]

\* handler.doConvert(currentFiles, stepInputFormat, stepOutputFormat) for hop r.i
doConvertCall(r) ==
  [handler |-> r.path[r.i + 2].handler, stepInputFormat |-> r.path[r.i + 1].format,
   stepOutputFormat |-> r.path[r.i + 2].format, files |-> r.currentFiles]

\* `let currentFiles = fileDataArray` at the top of the try block
attemptStart_carriesOver(r) == r.currentFiles
attemptStart(r) == r.fileDataArray

enterHop_keepsLooping(r) ==
  IF r.i < Len(r.path) - 1
  THEN [r EXCEPT !.pc = IF hopNeedsInit(r) THEN "init" ELSE "convert",
                 !.args = IF hopNeedsInit(r) THEN None ELSE Some(doConvertCall(r)),
                 !.invoked = @ + 1]
  ELSE [r EXCEPT !.pc = "next",
                 !.result = IF Len(r.currentFiles) > 0
                            THEN Some([files |-> r.currentFiles, path |-> r.path]) ELSE @]
enterHop(r) ==
  IF r.i < Len(r.path) - 1
  THEN [r EXCEPT !.pc = IF hopNeedsInit(r) THEN "init" ELSE "convert",
                 !.args = IF hopNeedsInit(r) THEN None ELSE Some(doConvertCall(r)),
                 !.invoked = @ + 1]
  ELSE IF Len(r.currentFiles) > 0
  THEN [r EXCEPT !.pc = "returned",
                 !.result = Some([files |-> r.currentFiles, path |-> r.path])]
  ELSE [r EXCEPT !.pc = "next"]
initCallsAfter(r) ==
  IF hopNeedsInit(r)
  THEN [hInitCalls EXCEPT ![r.path[r.i + 2].handler].convert = @ + 1]
  ELSE hInitCalls

\* the catch block: failedPaths.add(pathKey); engine.graph.addDeadEndPath(path); continue
pathFailed_notRecorded(r) == [r EXCEPT !.pc = "next"]
pathFailed_rethrows(r) == [r EXCEPT !.pc = "rejected", !.error = Some(<<"hop">>)]
pathFailed(r) ==
  [r EXCEPT !.pc = "next", !.failedPaths = @ \cup {pathKey(r.path)},
            !.recorded = @ \cup {pathSignature(r.path)}]

\* `if (failedPaths.has(pathKey)) continue`
locallyFailed_never(r, path) == FALSE
locallyFailed(r, path) == pathKey(path) \in r.failedPaths

\* `await Promise.all(... file.arrayBuffer())`, then the anchors, clearDeadEndPaths,
\* searchPath and the empty failedPaths
readInputFiles(c) ==
  /\ call[c].pc = "read"
  /\ \/ /\ call' = [call EXCEPT ![c].pc = "rejected", ![c].error = Some(<<"read">>)]
        /\ UNCHANGED deadEnds
     \/ LET r == call[c]
            fromHandler == findHandlerForFormat(r.inputFormat, handlerObjects)
            toHandler == findHandlerForFormat(r.outputFormat, handlerObjects)
            fromNode == ConvertPathNode(anchorHandler(fromHandler), r.inputFormat)
            toNode == ConvertPathNode(anchorHandler(toHandler), r.outputFormat)
        IN /\ call' = [call EXCEPT ![c] =
                 [r EXCEPT !.pc = "next", !.fileDataArray = r.inputFiles,
                           !.event = "searching",
                           !.fromHandler = fromHandler, !.toHandler = toHandler,
                           !.paths = searchPath(Get(engineInstance).supportedFormatCache,
                                                fromNode, toNode, r.simpleMode),
                           !.cursor = 0, !.failedPaths = {}]]
           /\ deadEnds' = clearDeadEndPaths(deadEnds)
  /\ UNCHANGED <<engineInstance, initPromise, constructions, build,
                 hReady, hFormats, hInitCalls, getter, pure, page>>

\* `for await (const path of pathIterator)`: the next candidate, or the final throw
nextPath(c) ==
  /\ call[c].pc = "next"
  /\ LET r == call[c]
         k == nextYield(r.paths, r.cursor, deadEnds)
     IN IF k = 0
        THEN /\ call' = [call EXCEPT ![c] =
                  [r EXCEPT !.pc = "rejected", !.requested = @ + 1, !.event = "exhausted",
                     !.error = Some(<<"nopath", r.inputFormat.format, r.outputFormat.format>>)]]
             /\ UNCHANGED hInitCalls
        ELSE LET r1 == [r EXCEPT !.cursor = k, !.requested = @ + 1, !.path = r.paths[k],
                                 !.i = 0, !.currentFiles = attemptStart(r),
                                 !.lastOutput = None, !.event = "yielded"]
             IN IF locallyFailed(r, r.paths[k])
                THEN /\ call' = [call EXCEPT ![c] = [r1 EXCEPT !.pc = "next"]]
                     /\ UNCHANGED hInitCalls
                ELSE /\ call' = [call EXCEPT ![c] = enterHop(r1)]
                     /\ hInitCalls' = initCallsAfter(r1)
  /\ UNCHANGED <<engineInstance, initPromise, constructions, build,
                 hReady, hFormats, getter, deadEnds, pure, page>>

\* `await handler.init()` settles inside convertFiles
hopInitSettles(c) ==
  /\ call[c].pc = "init"
  /\ \E outcome \in InitOutcomes :
       LET r == call[c]
           handler == r.path[r.i + 2].handler
       IN /\ hReady' = [hReady EXCEPT ![handler] = initReady(handler, outcome)]
          /\ hFormats' = [hFormats EXCEPT ![handler] = initFormats(handler, outcome)]
          /\ IF outcome = "reject"
             THEN /\ call' = [call EXCEPT ![c] = pathFailed([r EXCEPT !.event = "initRejected"])]
                  /\ deadEnds' = addDeadEndPath(deadEnds, r.path)
             ELSE /\ call' = [call EXCEPT ![c] =
                       [r EXCEPT !.pc = "convert", !.event = "initialized",
                                 !.args = Some(doConvertCall(r)), !.invoked = @ + 1]]
                  /\ UNCHANGED deadEnds
  /\ UNCHANGED <<engineInstance, initPromise, constructions, build,
                 hInitCalls, getter, pure, page>>

\* `await handler.doConvert(...)` settles, then the empty-output check and the loop step
hopConvertSettles(c) ==
  /\ call[c].pc = "convert"
  /\ LET r == call[c] IN
     \/ /\ call' = [call EXCEPT ![c] =
                  pathFailed([r EXCEPT !.event = "convertRejected", !.args = None])]
        /\ deadEnds' = addDeadEndPath(deadEnds, r.path)
        /\ UNCHANGED hInitCalls
     \/ \E out \in ConvertResults :
          IF someEmpty(out)
          THEN /\ call' = [call EXCEPT ![c] =
                        pathFailed([r EXCEPT !.currentFiles = out, !.args = None,
                                             !.lastOutput = Some(out),
                                             !.event = "emptyOutput"])]
               /\ deadEnds' = addDeadEndPath(deadEnds, r.path)
               /\ UNCHANGED hInitCalls
          ELSE LET r1 == [r EXCEPT !.currentFiles = out, !.i = @ + 1, !.args = None,
                                   !.lastOutput = Some(out), !.event = "converted"]
               IN /\ call' = [call EXCEPT ![c] = enterHop(r1)]
                  /\ hInitCalls' = initCallsAfter(r1)
                  /\ UNCHANGED deadEnds
  /\ UNCHANGED <<engineInstance, initPromise, constructions, build,
                 hReady, hFormats, getter, pure, page>>

\* ConvertPage's useState initial values; progress and message are display only and
\* left out, error "" and conversionPath "" are the empty sequence
PageIdle ==
  [files |-> <<>>, inputFormat |-> None, outputFormat |-> None, simpleMode |-> TRUE,
   engine |-> None, allFormats |-> <<>>, status |-> "idle", error |-> <<>>,
   conversionPath |-> <<>>, outputFiles |-> <<>>, settled |-> {}]

MainInit ==
  /\ engineInstance = None
  /\ initPromise = [state |-> "null", value |-> 0]
  /\ constructions = 0
  /\ build = BuildIdle
  /\ hReady = [h \in HandlerNames |-> FALSE]
  /\ hFormats = [h \in HandlerNames |-> None]
  /\ hInitCalls = [h \in HandlerNames |-> [build |-> 0, convert |-> 0]]
  /\ getter = [g \in Callers |-> [pc |-> "idle", via |-> "none", result |-> 0]]
  /\ call = [c \in Callers |-> CallIdle]
  /\ deadEnds = {}
  /\ page = PageIdle

mainVars == <<engineInstance, initPromise, constructions, build, hReady,
              hFormats, hInitCalls, getter, call, deadEnds, page>>

Init == MainInit /\ pure = <<>>

Next ==
  \/ \E g \in Callers : getEngine(g)
  \/ \E g \in Callers : getEngineSettles(g)
  \/ importHandlers
  \/ fetchCache
  \/ loadCache
  \/ initLoop
  \/ initSettles
  \/ publishEngine
  \/ \E c \in Callers : convertFiles(c)
  \/ \E c \in Callers : readInputFiles(c)
  \/ \E c \in Callers : nextPath(c)
  \/ \E c \in Callers : hopInitSettles(c)
  \/ \E c \in Callers : hopConvertSettles(c)

Spec == Init /\ [][Next]_vars

(***************************************************************************)
(* Overlapping convertFiles calls on one ready engine                      *)
(***************************************************************************)
\* the build after /cache.json could not be fetched and both inits succeeded
OverlapBuild ==
  LET b0 == [BuildIdle EXCEPT !.pc = "loop"]
      b1 == recordInit(b0, handlers[1], "ok", Some(LiveFormats(handlers[1])))
      b2 == recordInit(b1, handlers[2], "ok", Some(LiveFormats(handlers[2])))
  IN  [b2 EXCEPT !.pc = "done"]

\* the engine is published and every caller holds it
EngineBuilt ==
  /\ engineInstance = Some([id |-> 1,
                            handlers |-> handlers,
                            allFormats |-> dedupFormats(OverlapBuild.rawFormats),
                            supportedFormatCache |-> OverlapBuild.supportedFormatCache,
                            ready |-> TRUE])
  /\ initPromise = [state |-> "fulfilled", value |-> 1]
  /\ constructions = 1
  /\ build = OverlapBuild
  /\ hReady = [h \in HandlerNames |-> TRUE]
  /\ hFormats = [h \in HandlerNames |-> Some(LiveFormats(h))]
  /\ hInitCalls = [h \in HandlerNames |-> [build |-> 1, convert |-> 0]]
  /\ getter = [g \in Callers |->
                 [pc |-> "resolved", via |-> IF g = 1 THEN "started" ELSE "joined",
                  result |-> 1]]
  /\ call = [c \in Callers |-> CallIdle]
  /\ deadEnds = {}
  /\ pure = <<>>
OverlapInit == EngineBuilt /\ page = PageIdle

\* the overlap is between a pair of calls: those of the first two callers
Overlapping == {c \in Callers : Cardinality({d \in Callers : d < c}) <= 1}

\* convertFiles called by any caller that holds the engine, whatever the other
\* callers are doing: every caller asks for the same conversion, svg to png, the
\* first in advanced mode and the other in simple mode
convertFilesAny(c) ==
  /\ call[c].pc = "idle"
  /\ getter[c].pc = "resolved"
  /\ c \in Overlapping
  /\ \E inF \in {f \in Range(Get(engineInstance).allFormats) : f.from /\ f.format = SVG},
        outF \in {f \in Range(Get(engineInstance).allFormats) : f.to /\ f.format = PNG} :
       call' = [call EXCEPT ![c] = [CallIdle EXCEPT !.pc = "read", !.inputFormat = inF,
                  !.outputFormat = outF, !.simpleMode = (\E d \in Callers : d < c),
                  !.inputFiles = <<1>>]]
  /\ UNCHANGED <<engineInstance, initPromise, constructions, build,
                 hReady, hFormats, hInitCalls, getter, deadEnds, pure, page>>

\* the iterator hands the loop, once more, a candidate that this call has already
\* seen fail: nothing in convertFiles rules it out, the loop's own test of
\* failedPaths is what meets it. The callers are interchangeable: it is the first
\* call that is served this way, and between two repeats it asks for a new candidate
yieldAgain(c) ==
  /\ call[c].pc = "next"
  /\ call[c].event # "yieldedAgain"
  /\ \A d \in Callers : c <= d
  /\ \E k \in {j \in 1..call[c].cursor :
                 pathSignature(call[c].paths[j]) \in call[c].recorded} :
       LET r == call[c]
           r1 == [r EXCEPT !.requested = @ + 1, !.path = r.paths[k], !.i = 0,
                           !.currentFiles = attemptStart(r), !.lastOutput = None,
                           !.event = "yieldedAgain"]
       IN IF locallyFailed(r, r.paths[k])
          THEN /\ call' = [call EXCEPT ![c] = [r1 EXCEPT !.pc = "next"]]
               /\ UNCHANGED hInitCalls
          ELSE /\ call' = [call EXCEPT ![c] = enterHop(r1)]
               /\ hInitCalls' = initCallsAfter(r1)
  /\ UNCHANGED <<engineInstance, initPromise, constructions, build,
                 hReady, hFormats, getter, deadEnds, pure, page>>

OverlapNext ==
  \/ \E c \in Callers : convertFilesAny(c)
  \/ \E c \in Callers : readInputFiles(c)
  \/ \E c \in Callers : nextPath(c)
  \/ \E c \in Callers : hopConvertSettles(c)

SpecOverlap == OverlapInit /\ [][OverlapNext]_vars

ReyieldNext ==
  \/ \E c \in Callers : convertFilesAny(c)
  \/ \E c \in Callers : readInputFiles(c)
  \/ \E c \in Callers : nextPath(c)
  \/ \E c \in Callers : yieldAgain(c)
  \/ \E c \in Callers : hopConvertSettles(c)

SpecReyield == OverlapInit /\ [][ReyieldNext]_vars

(***************************************************************************)
(* ConvertPage: the page's handlers over a built engine                    *)
(***************************************************************************)
\* a File is modelled by name, type and size
PageFile(type) == [name |-> <<"a", ".", "s">>, type |-> type, bytes |-> 1]
PageSelections ==
  { <<PageFile("image/svg+xml")>>,
    <<PageFile("image/svg+xml"), PageFile("image/png")>> }

\* loadEngine, after `await getEngine()`: setEngine, setAllFormats
loadEngine ==
  /\ ~IsSome(page.engine)
  /\ EngineReady
  /\ page' = [page EXCEPT !.engine = Some(Get(engineInstance).id),
                          !.allFormats = Get(engineInstance).allFormats]
  /\ UNCHANGED <<engineInstance, initPromise, constructions, build, hReady,
                 hFormats, hInitCalls, getter, call, deadEnds, pure>>

\* handleFilesSelected, with the detection its import().then runs
handleFilesSelected(selectedFiles) ==
  /\ IF \E k \in 1..Len(selectedFiles) : selectedFiles[k].type # selectedFiles[1].type
     THEN UNCHANGED page
     ELSE LET detected ==
                IF Len(selectedFiles) > 0 /\ Len(page.allFormats) > 0
                THEN detectInputFormat(selectedFiles[1], page.allFormats)
                ELSE 0
          IN page' = [page EXCEPT !.files = selectedFiles, !.status = "idle",
                        !.outputFiles = <<>>, !.conversionPath = <<>>,
                        !.inputFormat = IF detected # 0
                                        THEN Some(page.allFormats[detected]) ELSE @]
  /\ UNCHANGED <<engineInstance, initPromise, constructions, build, hReady,
                 hFormats, hInitCalls, getter, call, deadEnds, pure>>

handleClear ==
  /\ page' = [page EXCEPT !.files = <<>>, !.inputFormat = None, !.outputFormat = None,
                          !.status = "idle", !.outputFiles = <<>>, !.error = <<>>,
                          !.conversionPath = <<>>]
  /\ UNCHANGED <<engineInstance, initPromise, constructions, build, hReady,
                 hFormats, hInitCalls, getter, call, deadEnds, pure>>

\* the "Convert to" FormatSelector, rendered while files are selected: onSelect of a
\* Format with f.to
setOutputFormat ==
  /\ Len(page.files) > 0
  /\ \E f \in {x \in Range(page.allFormats) : x.to} :
       page' = [page EXCEPT !.outputFormat = Some(f)]
  /\ UNCHANGED <<engineInstance, initPromise, constructions, build, hReady,
                 hFormats, hInitCalls, getter, call, deadEnds, pure>>

\* the Convert button is enabled
canConvert ==
  /\ Len(page.files) > 0
  /\ IsSome(page.inputFormat)
  /\ IsSome(page.outputFormat)
  /\ IsSome(page.engine)
  /\ page.status # "converting"

\* result.path.map(n => n.format.format).join(" -> ")
RECURSIVE pathString(_)
pathString(path) ==
  IF path = <<>> THEN <<>>
  ELSE IF Len(path) = 1 THEN path[1].format.format
  ELSE path[1].format.format \o <<" ", "-", ">", " ">> \o pathString(Tail(path))

\* a click on the enabled Convert button: handleConvert up to `await convertFiles(...)`;
\* the page's conversions take the call slots in turn
handleConvert(c) ==
  /\ canConvert
  /\ c \in Overlapping
  /\ call[c].pc = "idle"
  /\ \A d \in Callers : d < c => call[d].pc # "idle"
  /\ page' = [page EXCEPT !.status = "converting", !.outputFiles = <<>>,
                          !.error = <<>>, !.conversionPath = <<>>]
  /\ call' = [call EXCEPT ![c] =
       [CallIdle EXCEPT !.pc = "read", !.inputFormat = Get(page.inputFormat),
          !.outputFormat = Get(page.outputFormat), !.simpleMode = page.simpleMode,
          !.inputFiles = [k \in 1..Len(page.files) |-> page.files[k].bytes]]]
  /\ UNCHANGED <<engineInstance, initPromise, constructions, build, hReady,
                 hFormats, hInitCalls, getter, deadEnds, pure>>

\* handleConvert after `await convertFiles(...)` has settled: the success branch or
\* the catch block; `settled` keeps the calls whose continuation has run
handleConvertSettles(c) ==
  /\ call[c].pc \in {"returned", "rejected"}
  /\ c \notin page.settled
  /\ page' = IF call[c].pc = "returned"
             THEN [page EXCEPT !.conversionPath = pathString(Get(call[c].result).path),
                               !.outputFiles = Get(call[c].result).files,
                               !.status = "success", !.settled = @ \cup {c}]
             ELSE [page EXCEPT !.error = Get(call[c].error), !.status = "error",
                               !.settled = @ \cup {c}]
  /\ UNCHANGED <<engineInstance, initPromise, constructions, build, hReady,
                 hFormats, hInitCalls, getter, call, deadEnds, pure>>

PageInit == EngineBuilt /\ page = PageIdle
PageNext ==
  \/ loadEngine
  \/ \E selectedFiles \in PageSelections : handleFilesSelected(selectedFiles)
  \/ handleClear
  \/ setOutputFormat
  \/ \E c \in Callers : handleConvert(c)
  \/ \E c \in Callers : readInputFiles(c)
  \/ \E c \in Callers : nextPath(c)
  \/ \E c \in Callers : hopConvertSettles(c)
  \/ \E c \in Callers : handleConvertSettles(c)
SpecPage == PageInit /\ [][PageNext]_vars

(***************************************************************************)
(* The pure functions, each applied to inputs drawn from a bounded set      *)
(***************************************************************************)
SeqsUpTo(S, n) == UNION {[1..k -> S] : k \in 0..n}

PureInput(fn, inputs) ==
  {[fn |-> fn, input |-> x, done |-> FALSE, output |-> <<>>] : x \in inputs}

\* rawFormats whose names contain the separator character
MergeIdentities ==
  { <<<<"a">>, <<"b">>>>, <<<<"a">>, <<":", "b">>>>, <<<<"a", ":">>, <<"b">>>> }
MergePool ==
  {FileFormat(id[1], id[2], <<"x">>, "application/x", from, to, lossless) :
     id \in MergeIdentities, from \in BOOLEAN, to \in BOOLEAN, lossless \in BOOLEAN}

applyDedupFormats ==
  /\ pure.fn = "dedupFormats"
  /\ ~pure.done
  /\ pure' = [pure EXCEPT !.done = TRUE, !.output = dedupFormats(pure.input)]
  /\ UNCHANGED mainVars

MergeInit == MainInit /\ pure \in PureInput("dedupFormats", SeqsUpTo(MergePool, MaxRaw))
MergeNext == applyDedupFormats
SpecMerge == MergeInit /\ [][MergeNext]_vars

\* Catalogs and files for detection
DetectFormat(extension, mime, from) ==
  FileFormat(extension,
             <<IF mime = "image/png" THEN "1" ELSE "2", IF from THEN "f" ELSE "n">>,
             extension, mime, from, TRUE, FALSE)
DetectPool ==
  {DetectFormat(e, m, from) :
     e \in {<<"P">>, <<"q">>}, m \in {"image/png", "text/plain"}, from \in BOOLEAN}
DetectCatalogs ==
  {cat \in SeqsUpTo(DetectPool, MaxCatalog) :
     \A i, j \in 1..Len(cat) : i # j => cat[i] # cat[j]}
DetectFiles ==
  {[name |-> n, type |-> t] :
     n \in {<<"a", ".", "p">>, <<"a", ".", "P">>, <<"q">>, <<"a", ".">>},
     t \in {"", "image/png", "image/x-png", "text/plain"}}

applyDetectInputFormat ==
  /\ pure.fn = "detectInputFormat"
  /\ ~pure.done
  /\ pure' = [pure EXCEPT !.done = TRUE,
                !.output = detectInputFormat(pure.input.file, pure.input.allFormats)]
  /\ UNCHANGED mainVars

DetectInit ==
  MainInit /\ pure \in PureInput("detectInputFormat",
                 {[file |-> f, allFormats |-> cat] : f \in DetectFiles, cat \in DetectCatalogs})
DetectNext == applyDetectInputFormat
SpecDetect == DetectInit /\ [][DetectNext]_vars

\* Handler lists and targets for the lookup
FindIdentities ==
  { [format |-> <<"a">>, internal |-> <<"a">>],
    [format |-> <<"a">>, internal |-> <<"b">>],
    [format |-> <<"b">>, internal |-> <<"a">>] }
FindFormats ==
  {FileFormat(id.format, id.internal, <<"x">>, "application/x", TRUE, TRUE, FALSE) :
     id \in FindIdentities}
FindSupported == {None} \cup {Some(l) : l \in SeqsUpTo(FindFormats, MaxFindFormats)}
FindHandlers ==
  UNION { {[i \in 1..n |-> [name |-> i, supportedFormats |-> sf[i]]] :
             sf \in [1..n -> FindSupported]} : n \in 0..MaxFindHandlers }

applyFindHandlerForFormat ==
  /\ pure.fn = "findHandlerForFormat"
  /\ ~pure.done
  /\ pure' = [pure EXCEPT !.done = TRUE,
                !.output = findHandlerForFormat(pure.input.format, pure.input.handlers)]
  /\ UNCHANGED mainVars

FindInit ==
  MainInit /\ pure \in PureInput("findHandlerForFormat",
                 {[format |-> f, handlers |-> hs] : f \in FindFormats, hs \in FindHandlers})
FindNext == applyFindHandlerForFormat
SpecFind == FindInit /\ [][FindNext]_vars

\* Graphs and anchors for the path search: what the two handlers hold in the
\* capability cache, small enough for every simple path to fit the search depth
SearchPool == {SvgIn, MidAny, PngOut}
SearchLists ==
  {l \in SeqsUpTo(SearchPool, Cardinality(SearchPool)) :
     \A i, j \in 1..Len(l) : i # j => l[i] # l[j]}
SearchCaches ==
  {<< <<handlers[1], ll[1]>>, <<handlers[2], ll[2]>> >> :
     ll \in {x \in SearchLists \X SearchLists : Len(x[1]) + Len(x[2]) <= MaxHops + 1}}
SearchInputs ==
  UNION { {[cache |-> cache, from |-> from, to |-> to, simpleMode |-> mode] :
             from \in Range(graphVertices(cache)), to \in Range(graphVertices(cache)),
             mode \in BOOLEAN} : cache \in SearchCaches }

\* engine.graph.searchPath(fromNode, toNode, simpleMode): the iterator is created
applySearchPath ==
  /\ pure.fn = "searchPath"
  /\ ~pure.done
  /\ pure.output = <<>>
  /\ \E x \in SearchInputs :
       pure' = [pure EXCEPT !.input = x, !.output =
                  <<[paths |-> searchPath(x.cache, x.from, x.to, x.simpleMode),
                     cursor |-> 0, yielded |-> <<>>]>>]
  /\ UNCHANGED mainVars

\* one step of `for await (const path of pathIterator)` with an empty dead-end memory
applyNextYield ==
  /\ pure.fn = "searchPath"
  /\ ~pure.done
  /\ pure.output # <<>>
  /\ LET it == pure.output[1]
         k == nextYield(it.paths, it.cursor, {})
     IN pure' = IF k = 0 THEN [pure EXCEPT !.done = TRUE]
                ELSE [pure EXCEPT !.output =
                        <<[it EXCEPT !.cursor = k, !.yielded = Append(@, it.paths[k])]>>]
  /\ UNCHANGED mainVars

SearchInit == MainInit /\ pure \in PureInput("searchPath", {<<>>})
SearchNext == applySearchPath \/ applyNextYield
SpecSearch == SearchInit /\ [][SearchNext]_vars

\* the loop keeps asking the iterator until it is finished
SpecSearchLive == SpecSearch /\ WF_vars(applyNextYield)

\* Pairs of candidate paths for the local failed set: vertices over two handlers and
\* Formats of which two share the internal id under different display names
MaxKeyPath == 2
KeyFormats ==
  {FileFormat(id[1], id[2], <<"x">>, "application/x", TRUE, TRUE, FALSE) :
     id \in { <<<<"a">>, <<"a">>>>, <<<<"b">>, <<"a">>>>, <<<<"b">>, <<"b">>>> }}
KeyVertices == {ConvertPathNode(h, f) : h \in HandlerNames, f \in KeyFormats}
KeyPaths == SeqsUpTo(KeyVertices, MaxKeyPath) \ {<<>>}

\* the first path fails (the catch block), then the second is yielded and tested
\* against failedPaths
applyLocallyFailed ==
  /\ pure.fn = "locallyFailed"
  /\ ~pure.done
  /\ LET r == pathFailed([CallIdle EXCEPT !.path = pure.input.failed])
     IN pure' = [pure EXCEPT !.done = TRUE,
                   !.output = [failedPaths |-> r.failedPaths,
                               skipped |-> locallyFailed(r, pure.input.next)]]
  /\ UNCHANGED mainVars

KeyInit ==
  MainInit /\ pure \in PureInput("locallyFailed",
                 {[failed |-> p, next |-> q] : p \in KeyPaths, q \in KeyPaths})
KeyNext == applyLocallyFailed
SpecKey == KeyInit /\ [][KeyNext]_vars

(***************************************************************************)
(* Properties                                                              *)
(***************************************************************************)
initCalls(h) == hInitCalls[h].build + hInitCalls[h].convert

\* the handler loop has gone past handler h
loopPassed(h) ==
  \E k \in 1..Len(handlers) : handlers[k] = h /\ (k < build.i \/ build.pc = "done")
\* h was listed by the loaded snapshot and the loop has adopted its formats
adoptedFromSnapshot(h) == MapHas(build.cacheMap, h) /\ loopPassed(h)

\* C1: whatever the interleaving of getEngine calls, initializeEngine is started at
\* most once, and every getEngine call that has resolved holds the one published
\* engine instance, whose ready flag is true.
C1_SingleConstruction ==
  /\ constructions <= 1
  /\ \A g \in Callers :
       getter[g].pc = "resolved" =>
         /\ IsSome(engineInstance)
         /\ Get(engineInstance).ready
         /\ getter[g].result = Get(engineInstance).id
  /\ \A g1, g2 \in Callers :
       getter[g1].pc = "resolved" /\ getter[g2].pc = "resolved" =>
         getter[g1].result = getter[g2].result

\* a call that started construction and a call issued while it was in flight have
\* both resolved
C1_Witness ==
  \E g1, g2 \in Callers :
    /\ getter[g1].via = "started" /\ getter[g1].pc = "resolved"
    /\ getter[g2].via = "joined" /\ getter[g2].pc = "resolved"

\* C2: every handler's init is invoked at most once, counting the invocations of
\* engine construction and of every convertFiles hop.
C2_InitAtMostOnce == \A h \in HandlerNames : initCalls(h) <= 1

\* C3 (as stated): a registered handler listed by the loaded snapshot never has its
\* init invoked and its supportedFormats stay exactly the snapshot's list.
C3_AdoptedNeverInitialized ==
  \A h \in HandlerNames :
    adoptedFromSnapshot(h) =>
      /\ initCalls(h) = 0
      /\ hFormats[h] = Some(MapGet(build.cacheMap, h))

\* C3 (amended): engine construction never invokes the init of a registered handler
\* listed by the loaded snapshot, and that handler's supportedFormats are exactly
\* the snapshot's list for as long as no convertFiles hop has invoked its init.
C3_AdoptedUntilLazyInit ==
  \A h \in HandlerNames :
    adoptedFromSnapshot(h) =>
      /\ hInitCalls[h].build = 0
      /\ hInitCalls[h].convert = 0 => hFormats[h] = Some(MapGet(build.cacheMap, h))

\* the engine is ready with a handler adopted from the snapshot, whose list differs
\* from what its init would publish
C3_Witness ==
  /\ EngineReady
  /\ \E h \in HandlerNames :
       /\ adoptedFromSnapshot(h)
       /\ hFormats[h] = Some(MapGet(build.cacheMap, h))
       /\ MapGet(build.cacheMap, h) # LiveFormats(h)

\* C4: once a handler's init has rejected during construction, construction does not
\* fail; the handler has no entry in the capability cache and has contributed no
\* Format to the merge; and when construction completes the engine is ready, its
\* Catalog is the merge of the contributions, and every registered handler has been
\* processed (adopted, or its init invoked).
C4_InitFailureIsolated ==
  build.initRejected # {} =>
    /\ build.pc \in {"loop", "init", "done"}
    /\ initPromise.state # "rejected"
    /\ \A h \in build.initRejected :
         /\ ~MapHas(build.supportedFormatCache, h)
         /\ h \notin Range(build.rawBy)
    /\ build.pc = "done" =>
         /\ EngineReady
         /\ Get(engineInstance).supportedFormatCache = build.supportedFormatCache
         /\ Get(engineInstance).allFormats = dedupFormats(build.rawFormats)
         /\ \A h \in HandlerNames : adoptedFromSnapshot(h) \/ hInitCalls[h].build = 1

\* construction has completed although the init of every handler rejected
C4_Witness ==
  /\ build.pc = "done"
  /\ build.initRejected = HandlerNames
  /\ EngineReady
  /\ Get(engineInstance).allFormats = <<>>

\* C5: after the merge every identity key (format, internal) among the contributed
\* Formats has exactly one Catalog entry, whose from, to and lossless flags are the
\* OR of those flags over the contributions with that key (so the order of the
\* contributions does not matter).
C5_OneEntryPerIdentity ==
  (pure.fn = "dedupFormats" /\ pure.done) =>
    \A k \in 1..Len(pure.input) :
      LET f == pure.input[k]
          same == {j \in 1..Len(pure.input) : sameFormat(pure.input[j], f)}
          entries == {j \in 1..Len(pure.output) : sameFormat(pure.output[j], f)}
      IN /\ Cardinality(entries) = 1
         /\ \A e \in entries :
              /\ pure.output[e].from = (\E j \in same : pure.input[j].from)
              /\ pure.output[e].to = (\E j \in same : pure.input[j].to)
              /\ pure.output[e].lossless = (\E j \in same : pure.input[j].lossless)

C6_ExtMime(f, extension, mime) ==
  toLowerCase(f.extension) = extension /\ (f.mime = mime \/ mime = "")
C6_Ext(f, extension) == toLowerCase(f.extension) = extension
C6_Mime(f, mime) == mime # "" /\ f.mime = mime
C6_FirstOf(cat, S) == IF S = {} THEN 0 ELSE CHOOSE k \in S : \A j \in S : k <= j

\* C6: detectInputFormat returns the first from-capable entry matching extension and
\* (mime equal or file mime absent); failing that the first from-capable entry
\* matching the extension; failing that the first from-capable entry matching a
\* non-empty mime; failing that null. So when some from-capable entry matches
\* extension and mime, the entry returned matches both, wherever an extension-only
\* match sits.
C6_ThreeTierDetection ==
  (pure.fn = "detectInputFormat" /\ pure.done) =>
    LET cat == pure.input.allFormats
        extension == fileExtension(pure.input.file.name)
        mime == normalizeMimeType(pure.input.file.type)
        capable == {k \in 1..Len(cat) : cat[k].from}
        T1 == {k \in capable : C6_ExtMime(cat[k], extension, mime)}
        T2 == {k \in capable : C6_Ext(cat[k], extension)}
        T3 == {k \in capable : C6_Mime(cat[k], mime)}
    IN /\ pure.output = IF T1 # {} THEN C6_FirstOf(cat, T1)
                        ELSE IF T2 # {} THEN C6_FirstOf(cat, T2)
                        ELSE IF T3 # {} THEN C6_FirstOf(cat, T3)
                        ELSE 0
       /\ (\E k \in capable : toLowerCase(cat[k].extension) = extension /\ cat[k].mime = mime) =>
            /\ pure.output # 0
            /\ toLowerCase(cat[pure.output].extension) = extension
            /\ cat[pure.output].mime = mime

\* the second entry, an extension+mime match, is returned although the first entry
\* is a from-capable extension-only match
C6_Witness ==
  /\ pure.fn = "detectInputFormat" /\ pure.done
  /\ pure.output = 2
  /\ LET cat == pure.input.allFormats
         extension == fileExtension(pure.input.file.name)
         mime == normalizeMimeType(pure.input.file.type)
     IN /\ cat[1].from /\ toLowerCase(cat[1].extension) = extension /\ cat[1].mime # mime
        /\ mime # "" /\ cat[2].mime = mime /\ toLowerCase(cat[2].extension) = extension

C7_Qualifies(h, target) ==
  /\ h.supportedFormats # None
  /\ \E f \in Range(Get(h.supportedFormats)) :
       f.internal = target.internal /\ f.format = target.format

\* C7: findHandlerForFormat returns the first handler, in registration order, whose
\* supportedFormats is present and contains an entry equal to the target on internal
\* and on format; it returns null exactly when no handler qualifies.
C7_FirstQualifyingHandler ==
  (pure.fn = "findHandlerForFormat" /\ pure.done) =>
    LET hs == pure.input.handlers
        target == pure.input.format
        r == pure.output
    IN /\ r \in 0..Len(hs)
       /\ r = 0 <=> ~\E i \in 1..Len(hs) : C7_Qualifies(hs[i], target)
       /\ r # 0 => /\ C7_Qualifies(hs[r], target)
                   /\ \A j \in 1..(r - 1) : ~C7_Qualifies(hs[j], target)

\* the second handler is returned: the first has no supportedFormats
C7_Witness ==
  /\ pure.fn = "findHandlerForFormat" /\ pure.done
  /\ pure.output = 2
  /\ pure.input.handlers[1].supportedFormats = None

FailureEvents == {"initRejected", "convertRejected", "emptyOutput"}

\* C8: a step in which a hop fails (the destination handler's init rejects, its
\* conversion rejects or throws, or an output file is empty) ends that path only:
\* the call invokes nothing more, the path is in the call's failedPaths and in the
\* dead-end memory, and the call is back at the iterator, neither returned nor
\* rejected.
C8_FailedHopAbortsOnlyPath ==
  [][\A c \in Callers :
       ( /\ call[c].pc \in {"init", "convert"}
         /\ call'[c] # call[c]
         /\ call'[c].event \in FailureEvents ) =>
         /\ call'[c].pc = "next"
         /\ call'[c].invoked = call[c].invoked
         /\ pathKey(call[c].path) \in call'[c].failedPaths
         /\ pathSignature(call[c].path) \in deadEnds'
         /\ call'[c].result = None
         /\ call'[c].error = None]_vars

\* a call is converting along a later candidate after an earlier candidate failed
C8_Witness ==
  \E c \in Callers :
    /\ call[c].pc = "convert"
    /\ call[c].failedPaths # {}
    /\ pathKey(call[c].path) \notin call[c].failedPaths

\* C9: the step that completes the last hop of a candidate with a non-empty file
\* list returns that list and that path, and a call that has returned never changes
\* again: it requests no candidate and invokes no handler operation.
C9_ReturnsOnFirstSuccess ==
  [][\A c \in Callers :
       /\ ( /\ call[c].pc = "convert"
            /\ call'[c] # call[c]
            /\ call[c].i = Len(call[c].path) - 2
            /\ call'[c].event = "converted"
            /\ Len(call'[c].currentFiles) > 0 ) =>
            /\ call'[c].pc = "returned"
            /\ call'[c].result =
                 Some([files |-> call'[c].currentFiles, path |-> call[c].path])
       /\ call[c].pc = "returned" => call'[c] = call[c]]_vars

\* a call has returned after a hop although the search had further candidates
C9_Witness ==
  \E c \in Callers :
    /\ call[c].pc = "returned"
    /\ Len(call[c].path) > 1
    /\ nextYield(call[c].paths, call[c].cursor, deadEnds) # 0

\* C10: once path search has started, no init or hop failure rejects the call; the
\* call rejects exactly at the step where the iterator has no candidate left, and
\* then with the error that names the requested input and output formats.
C10_OnlyExhaustionRejects ==
  [][\A c \in Callers :
       /\ call[c].pc \in {"init", "convert"} => call'[c].pc # "rejected"
       /\ (call[c].pc = "next" /\ call'[c] # call[c]) =>
            (call'[c].pc = "rejected"
               <=> nextYield(call[c].paths, call[c].cursor, deadEnds) = 0)
       /\ (call[c].pc = "next" /\ call'[c].pc = "rejected") =>
            /\ call'[c].result = None
            /\ call'[c].error = Some(<<"nopath", call[c].inputFormat.format,
                                       call[c].outputFormat.format>>)]_vars

\* a call has rejected with the terminal error after its candidates failed
C10_Witness ==
  \E c \in Callers :
    /\ call[c].pc = "rejected"
    /\ call[c].failedPaths # {}
    /\ call[c].error = Some(<<"nopath", call[c].inputFormat.format,
                              call[c].outputFormat.format>>)

InFlight(r) == r.pc \notin {"idle", "returned", "rejected"}

\* C11: a call never executes a hop of a path that it has itself seen fail and handed
\* to addDeadEndPath, whatever the iterator yields (the same path once more included)
\* and whatever the overlapping calls do to the dead-end memory.
C11_NoReexecution ==
  \A c \in Callers :
    call[c].pc \in {"init", "convert"} =>
      /\ pathSignature(call[c].path) \notin call[c].recorded
      /\ pathKey(call[c].path) \notin call[c].failedPaths

\* the iterator has yielded a failed path again, after another call's clear erased it
\* from the dead-end memory, and the loop has skipped it
C11_Witness ==
  \E c \in Callers :
    /\ call[c].event = "yieldedAgain"
    /\ call[c].pc = "next"
    /\ pathSignature(call[c].path) \in call[c].recorded
    /\ pathSignature(call[c].path) \notin deadEnds
    /\ \E d \in Callers \ {c} : InFlight(call[d])

passedOver(c) ==
  {k \in (call[c].cursor + 1)..Len(call[c].paths) :
     call'[c].event = "exhausted" \/ k < call'[c].cursor}

\* C13: the dead-end memory is empty when a call starts searching; nothing a call
\* recorded is left in it once the call has returned or failed; and the search never
\* passes over a candidate for a call that did not itself record it as failed.
C13_DeadEndScopedToCall ==
  [][\A c \in Callers :
       /\ (call[c].pc = "read" /\ call'[c].pc = "next") => deadEnds' = {}
       /\ call'[c].pc \in {"returned", "rejected"} =>
            call'[c].recorded \cap deadEnds' = {}
       /\ ( /\ call[c].pc = "next"
            /\ call'[c] # call[c]
            /\ call'[c].event \in {"yielded", "exhausted"} ) =>
            \A k \in passedOver(c) :
              pathSignature(call[c].paths[k]) \in call[c].recorded]_vars

\* the call has looked its anchors up and found no handler for one of the two formats
unresolvedAnchor(r) == r.event # "none" /\ (r.fromHandler = 0 \/ r.toHandler = 0)

\* C14: a call whose lookup found no handler for the input or the output Format
\* invokes no handler operation and returns no result (it ends with an error instead
\* of searching from a substituted anchor).
C14_UnresolvedHandlerIsAnError ==
  \A c \in Callers :
    unresolvedAnchor(call[c]) =>
      /\ call[c].invoked = 0
      /\ call[c].result = None

hops(path) == Len(path) - 1
handlerIndex(h) == CHOOSE i \in 1..Len(handlers) : handlers[i] = h

\* the search under test has been started / has finished
searching == pure.fn = "searchPath" /\ pure.output # <<>>
searched == searching /\ pure.done
yielded == pure.output[1].yielded

\* where two paths of equal length first differ, p's handler is registered no later
C15_RegistrationOrder(p, q) ==
  \A k \in 1..Len(p) :
    (p[k] # q[k] /\ \A j \in 1..(k - 1) : p[j] = q[j]) =>
      handlerIndex(p[k].handler) <= handlerIndex(q[k].handler)

\* C15: the paths come out of the iterator in non-decreasing hop count, paths of equal
\* hop count in handler registration order, and a path is yielded only after every
\* candidate with fewer hops.
C15_BreadthFirstOrder ==
  searching =>
    /\ \A j, k \in 1..Len(yielded) :
         j < k =>
           /\ hops(yielded[j]) <= hops(yielded[k])
           /\ yielded[j] # yielded[k]
           /\ hops(yielded[j]) = hops(yielded[k]) =>
                C15_RegistrationOrder(yielded[j], yielded[k])
    /\ \A k \in 1..Len(yielded) :
         \A q \in Range(pure.output[1].paths) :
           hops(q) < hops(yielded[k]) => \E j \in 1..(k - 1) : yielded[j] = q

\* two paths of equal hop count through different handlers, and a longer one after
\* them or a shorter one before them, have been yielded
C15_Witness ==
  /\ searched
  /\ \E j, k \in 1..Len(yielded) :
       /\ j < k
       /\ hops(yielded[j]) = hops(yielded[k])
       /\ \E i \in 1..Len(yielded[j]) : yielded[j][i].handler # yielded[k][i].handler

\* an edge of the conversion graph, as the spec defines it
C17_Joined(u, v) ==
  \/ u.handler = v.handler /\ u.format # v.format /\ u.format.from /\ v.format.to
  \/ /\ u.handler # v.handler
     /\ u.format.format = v.format.format /\ u.format.internal = v.format.internal

\* a path from `from` to `to`: distinct vertices, each joined to the next
C16_IsPath(p, from, to) ==
  /\ Len(p) >= 1
  /\ p[1] = from /\ p[Len(p)] = to
  /\ \A i, j \in 1..Len(p) : i # j => p[i] # p[j]
  /\ \A i \in 1..(Len(p) - 1) : C17_Joined(p[i], p[i + 1])

C16_AllPaths(cache, from, to) ==
  {p \in SeqsUpTo(Range(graphVertices(cache)), MaxHops + 1) : C16_IsPath(p, from, to)}

\* C16: in simple mode exactly the paths of minimal hop count are yielded; in advanced
\* mode every path between the anchors is yielded, the multi-hop ones included; so the
\* advanced-mode set contains the simple-mode set.
C16_SimpleIsMinimalAdvancedIsAll ==
  searched =>
    LET all == C16_AllPaths(pure.input.cache, pure.input.from, pure.input.to)
        minimal == {p \in all : \A q \in all : hops(p) <= hops(q)}
    IN /\ pure.input.simpleMode => Range(yielded) = minimal
       /\ ~pure.input.simpleMode => Range(yielded) = all
       /\ minimal \subseteq all
       /\ Range(searchPath(pure.input.cache, pure.input.from, pure.input.to, TRUE))
            \subseteq Range(searchPath(pure.input.cache, pure.input.from,
                                       pure.input.to, FALSE))

\* a simple-mode search has finished with its one minimal path although the anchors
\* are also joined by a longer path
C16_Witness ==
  /\ searched
  /\ pure.input.simpleMode
  /\ Len(yielded) = 1
  /\ \E p \in C16_AllPaths(pure.input.cache, pure.input.from, pure.input.to) :
       hops(p) > hops(yielded[1])

\* the anchors are joined by some path of the graph
C17_Connected ==
  /\ searching
  /\ C16_AllPaths(pure.input.cache, pure.input.from, pure.input.to) # {}

\* every yielded path runs from the input anchor to the output anchor over edges
C17_WellFormed ==
  searching =>
    \A k \in 1..Len(yielded) :
      /\ yielded[k][1] = pure.input.from
      /\ yielded[k][Len(yielded[k])] = pure.input.to
      /\ \A i \in 1..(Len(yielded[k]) - 1) : C17_Joined(yielded[k][i], yielded[k][i + 1])

C17_Yielded == searching /\ Len(yielded) >= 1

\* C17: every yielded path runs from the input anchor to the output anchor, adjacent
\* vertices joined by an intra-handler or a hand-off edge; and when the anchors are
\* connected in the graph, a search between them eventually yields at least one path.
C17_ConnectedEventuallyYields == []C17_WellFormed /\ (C17_Connected ~> C17_Yielded)

\* a path that crosses from one handler to the other has been yielded between anchors
\* that no single edge joins
C17_Witness ==
  /\ searched
  /\ Len(yielded) >= 1
  /\ hops(yielded[1]) >= 2
  /\ \E i \in 1..(Len(yielded[1]) - 1) : yielded[1][i].handler # yielded[1][i + 1].handler

\* C18: the doConvert call in flight for hop i of the current attempt is made on the
\* handler of path[i+1] with the formats of path[i] and path[i+1]; its input files are
\* the original buffers (as read at the start of the call) for the first hop and the
\* output of the previous hop of this attempt otherwise, whatever earlier attempts
\* left behind; and it is in flight only once the hop before it has resolved.
C18_HopArguments ==
  \A c \in Callers :
    LET r == call[c] IN
    /\ r.pc \notin {"idle", "read"} /\ r.event # "none" => r.fileDataArray = r.inputFiles
    /\ r.pc = "convert" =>
         /\ r.i < Len(r.path) - 1
         /\ IsSome(r.args)
         /\ Get(r.args).handler = r.path[r.i + 2].handler
         /\ Get(r.args).stepInputFormat = r.path[r.i + 1].format
         /\ Get(r.args).stepOutputFormat = r.path[r.i + 2].format
         /\ IsSome(r.lastOutput) <=> r.i > 0
         /\ Get(r.args).files = IF r.i = 0 THEN r.inputFiles ELSE Get(r.lastOutput)
    /\ r.pc # "convert" => r.args = None

\* the second hop of a later candidate is in flight on another handler than the
\* first, after an earlier candidate ended with an empty output file
C18_Witness ==
  \E c \in Callers :
    /\ call[c].pc = "convert"
    /\ call[c].i >= 1
    /\ call[c].failedPaths # {}
    /\ call[c].path[call[c].i + 1].handler # call[c].path[call[c].i + 2].handler

\* C19: a call that has returned holds a result of at least one file, none of them of
\* length zero.
C19_ReturnedFilesNonEmpty ==
  \A c \in Callers :
    call[c].pc = "returned" =>
      /\ IsSome(call[c].result)
      /\ Len(Get(call[c].result).files) >= 1
      /\ \A k \in 1..Len(Get(call[c].result).files) : Get(call[c].result).files[k] # 0

\* what the surviving registered handlers (adopted from the snapshot, or initialised
\* with success) have contributed to a published engine
survivingFormats ==
  UNION {Range(MapGet(Get(engineInstance).supportedFormatCache, h)) :
           h \in {x \in HandlerNames : MapHas(Get(engineInstance).supportedFormatCache, x)}}

\* C20: the Catalog of a ready engine holds exactly the identities contributed by the
\* surviving registered handlers, each with the OR of the contributed flags; a Format
\* listed only under an unregistered handler name of the snapshot is not in it.
C20_CatalogFromSurvivingHandlers ==
  EngineReady =>
    /\ \A f \in Range(Get(engineInstance).allFormats) :
         /\ \E g \in survivingFormats : sameFormat(f, g)
         /\ f.from = (\E g \in survivingFormats : sameFormat(f, g) /\ g.from)
         /\ f.to = (\E g \in survivingFormats : sameFormat(f, g) /\ g.to)
         /\ f.lossless = (\E g \in survivingFormats : sameFormat(f, g) /\ g.lossless)
    /\ \A g \in survivingFormats :
         \E f \in Range(Get(engineInstance).allFormats) : sameFormat(f, g)

\* C21: a yielded path is skipped as locally failed only when the path that failed
\* has the same ordered sequence of (handler name, Format display name, Format
\* internal id) vertices.
C21_SkipsOnlyIdenticalPath ==
  (pure.fn = "locallyFailed" /\ pure.done /\ pure.output.skipped) =>
    pathSignature(pure.input.next) = pathSignature(pure.input.failed)

\* C22: when GET /cache.json rejects, answers not-ok, or its body fails to parse or
\* to load, construction goes on to the handler loop with its promise still
\* pending and with nothing adopted but what the load had set before it failed;
\* every handler the loop has passed was adopted from the snapshot or had its init
\* invoked; and when the loop completes the engine is published ready.
C22_FetchStep ==
  (build.pc = "fetch" /\ build'.pc # "fetch") =>
    /\ initPromise' = initPromise
    /\ build'.pc \in {"json", "loop"}
    /\ build'.pc = "loop" => build'.supportedFormatCache = <<>> /\ build'.i = 1
C22_LoadStep ==
  (build.pc = "json" /\ build'.pc # "json") =>
    /\ initPromise' = initPromise
    /\ build'.pc = "loop" /\ build'.i = 1
    /\ build'.cacheMap = build'.supportedFormatCache
    /\ build.response.status = "badjson" => build'.supportedFormatCache = <<>>
C22_NotAdoptedIsInitialized ==
  /\ build.pc \in {"loop", "init", "done"} => initPromise.state # "rejected"
  /\ \A h \in HandlerNames :
       loopPassed(h) => (MapHas(build.cacheMap, h) \/ hInitCalls[h].build = 1)
  /\ build.pc = "done" => EngineReady
C22_SnapshotFailureIsNotFatal ==
  /\ []C22_NotAdoptedIsInitialized
  /\ [][C22_FetchStep /\ C22_LoadStep]_vars

\* the engine is ready after a load that threw on its first entry: the handler
\* listed after that entry was not adopted, and every handler's init was invoked
C22_Witness ==
  /\ EngineReady
  /\ build.pc = "done"
  /\ build.cacheMap = << <<"HX", Null>> >>
  /\ \A h \in HandlerNames : hInitCalls[h].build = 1

\* C23: whenever an attempted candidate path ends without becoming the returned
\* result (the call goes on to ask for the next candidate), that path is by then in
\* the local failed set and in Dead-End Memory; this includes a path whose hops all
\* completed and whose final file list is empty.
C23_AbandonedPathIsRecorded ==
  [][\A c \in Callers :
       ( /\ call[c].pc \in {"init", "convert"}
         /\ call'[c] # call[c]
         /\ call'[c].pc = "next" ) =>
         /\ pathKey(call[c].path) \in call'[c].failedPaths
         /\ pathSignature(call[c].path) \in deadEnds']_vars

\* C24: in ConvertPage at most one convertFiles call is in flight at any time.
C24_OneConversionInFlight ==
  Cardinality({c \in Callers : InFlight(call[c])}) <= 1

\* C25: once status is idle it stays idle, with empty outputFiles and conversionPath,
\* until a new conversion is started; the continuation of a conversion that settles
\* while status is idle changes none of status, outputFiles, conversionPath, error.
C25_IdleUntilNextConversion ==
  [][page.status = "idle" =>
       /\ page'.status \in {"idle", "converting"}
       /\ page'.status = "idle" =>
            /\ page'.outputFiles = <<>>
            /\ page'.conversionPath = <<>>
       /\ page'.settled # page.settled => page'.error = page.error]_vars

\* C26: once engine construction has rejected, the rejected promise stays in
\* initPromise: construction is never started again, no engine instance is ever
\* published, no getEngine call resolves, and every getEngine call that has settled
\* was rejected with the error of that one construction.
C26_Rejected ==
  initPromise.state = "rejected" =>
    /\ constructions = 1
    /\ engineInstance = None
    /\ \A g \in Callers :
         /\ getter[g].pc \in {"idle", "waiting", "rejected"}
         /\ getter[g].pc = "rejected" => getter[g].result = initPromise.value
C26_StaysRejected ==
  initPromise.state = "rejected" =>
    /\ initPromise' = initPromise
    /\ constructions' = constructions
    /\ engineInstance' = engineInstance
    /\ build' = build
C26_RejectionIsMemoized == []C26_Rejected /\ [][C26_StaysRejected]_vars

\* a getEngine call issued after construction had rejected has itself been rejected
C26_Witness ==
  /\ initPromise.state = "rejected"
  /\ \E g \in Callers : getter[g].via = "settled" /\ getter[g].pc = "rejected"

====
